---- MODULE Spec2Model ----
(***************************************************************************)
(* Streaming session coordinator of the realtime translator server.        *)
(* One WebSocket connection and its sessionData record are modelled; the   *)
(* handlers of 'message' and 'close', the debounce timer callback and the  *)
(* continuations of processAudioStream after each await are the actions.   *)
(* Node runs every callback to its next await without interleaving, so an  *)
(* action is one such run, including the microtask continuations that      *)
(* follow a promise that is already settled.                               *)
(***************************************************************************)
EXTENDS Integers, Sequences, FiniteSets, TLC

\* ---- bounds of the exploration ----
MaxAudio == 2          \* audio messages received on the connection
MaxControl == 2        \* config, stop and clear messages received
MaxInvocations == 2    \* invocations that reach the gateway

\* ---- inputs ----
FragSizes == {0, 2000, 4000}           \* decoded byte length of a fragment
LangPairs == {<<"", "">>, <<"en", "zh">>}     \* sourceLanguage, targetLanguage fields ("" = absent)
Texts == {"", "ni"}                           \* transcriptionResponse.text
Translations == {"", "hi"}                    \* choices[0].message.content
StopFrag == [id |-> 0, size |-> 1000]         \* the audio carried by a stop message

NoTimer == 0                                  \* processingTimer: null

VARIABLES
    audioChunks,      \* sessionData.audioChunks: sequence of [id, size]
    lastTranscript,   \* sessionData.lastTranscript
    lastTranslation,  \* sessionData.lastTranslation
    isProcessing,     \* sessionData.isProcessing
    sourceLanguage,   \* sessionData.sourceLanguage
    targetLanguage,   \* sessionData.targetLanguage
    processingTimer,  \* sessionData.processingTimer: NoTimer or a handle
    timers,           \* handles of the timeouts that are scheduled and live
    closed,           \* the connection has closed, the session is deleted
    procs,            \* calls of processAudioStream suspended at an await
    sent,             \* events given to ws.send by the step taken last
    nAudio,           \* audio messages received so far
    nControl,         \* config, stop, clear messages received so far
    nInv,             \* invocations started so far
    stopDone,         \* a stop handler has run to its end and no audio came since
    heard,            \* transcriptionResponse.text handled by the step taken last
    prevBlob,         \* blob of the latest non-final invocation since the buffer was reset
    last              \* the step taken last

vars == <<audioChunks, lastTranscript, lastTranslation, isProcessing,
          sourceLanguage, targetLanguage, processingTimer, timers, closed,
          procs, sent, nAudio, nControl, nInv, stopDone, heard, prevBlob,
          last>>

\* ---- pure helpers ----

\* message.sourceLanguage || 'zh'
OrDefault(v, d) == IF v = "" THEN d ELSE v

RECURSIVE ByteLength(_)
\* Buffer.concat(chunks).length
ByteLength(chunks) ==
    IF chunks = <<>> THEN 0 ELSE Head(chunks).size + ByteLength(Tail(chunks))

\* no floor for any call
minAudioSize_NoFloor(isFinal) == 0

\* const minAudioSize = isFinal ? 0 : 4000
minAudioSize(isFinal) == IF isFinal THEN 0 ELSE 4000

\* the guard without its test of the number of chunks
Guarded_NoEmptyTest == isProcessing

\* processAudioStream returns at once: a call is active or no chunk is buffered
Guarded == isProcessing \/ Len(audioChunks) = 0

\* the size floor aborts the call
SizeAbort(isFinal) == ByteLength(audioChunks) < minAudioSize(isFinal) /\ ~isFinal

\* setTimeout returns a handle that no live timeout has
NewHandle(ts) == CHOOSE h \in 1..(Cardinality(ts) + 1) :
                     /\ h \notin ts
                     /\ \A g \in 1..(h - 1) : g \in ts

\* scheduleProcessing without its early return: a second timeout is set
scheduleProcessing_NoGuard(pt, ts) == <<NewHandle(ts), ts \cup {NewHandle(ts)}>>

\* scheduleProcessing as a resetting debounce: the pending timeout is replaced
scheduleProcessing_Replace(pt, ts) ==
    <<NewHandle(ts), (ts \ {pt}) \cup {NewHandle(ts)}>>

\* scheduleProcessing: the field and the set of live timeouts afterwards
scheduleProcessing(pt, ts) ==
    IF pt # NoTimer THEN <<pt, ts>> ELSE <<NewHandle(ts), ts \cup {NewHandle(ts)}>>

\* a clearTimeout that leaves the timeout live
clearTimeout_Noop(pt, ts) == ts

\* clearTimeout(handle)
clearTimeout(pt, ts) == ts \ {pt}

\* the call suspended at the transcribe await
NewProc(isFinal, origin) ==
    [id |-> nInv + 1, isFinal |-> isFinal, origin |-> origin, pc |-> "transcribe",
     blob |-> audioChunks, lang |-> sourceLanguage,
     pair |-> <<sourceLanguage, targetLanguage>>, newText |-> "",
     src |-> "", tgt |-> "", onlyAudio |-> TRUE, cleared |-> FALSE]

Init ==
    /\ audioChunks = <<>>
    /\ lastTranscript = ""
    /\ lastTranslation = ""
    /\ isProcessing = FALSE
    /\ sourceLanguage = "zh"
    /\ targetLanguage = "en"
    /\ processingTimer = NoTimer
    /\ timers = {}
    /\ closed = FALSE
    /\ procs = {}
    /\ sent = <<>>
    /\ nAudio = 0
    /\ nControl = 0
    /\ nInv = 0
    /\ stopDone = FALSE
    /\ heard = ""
    /\ prevBlob = <<>>
    /\ last = "connect"

\* a message other than audio reaches the session while p is suspended
Disturb(ps) == {[p EXCEPT !.onlyAudio = FALSE] : p \in ps}

\* ws.on('message'), type 'audio', for a fragment of size bytes and language fields lp
Audio(size, lp) ==
        /\ ~closed
        /\ nAudio' = nAudio + 1
        /\ audioChunks' = Append(audioChunks, [id |-> nAudio + 1, size |-> size])
        /\ sourceLanguage' = OrDefault(lp[1], "zh")
        /\ targetLanguage' = OrDefault(lp[2], "en")
        /\ IF ~isProcessing
              THEN /\ processingTimer' = scheduleProcessing(processingTimer, timers)[1]
                   /\ timers' = scheduleProcessing(processingTimer, timers)[2]
              ELSE UNCHANGED <<processingTimer, timers>>
        /\ stopDone' = FALSE
        /\ last' = "audio"
        /\ sent' = <<>> /\ heard' = ""
        /\ UNCHANGED <<lastTranscript, lastTranslation, isProcessing, closed,
                       procs, nControl, nInv, prevBlob>>

\* an audio message with any fragment and language fields
RecvAudio ==
    \E size \in FragSizes, lp \in LangPairs :
        /\ nAudio < MaxAudio
        /\ Audio(size, lp)

\* a config message that also drops the buffered audio
RecvConfig_Flush ==
    \E lp \in LangPairs :
        /\ ~closed
        /\ nControl < MaxControl
        /\ nControl' = nControl + 1
        /\ sourceLanguage' = OrDefault(lp[1], "zh")
        /\ targetLanguage' = OrDefault(lp[2], "en")
        /\ audioChunks' = <<>>
        /\ procs' = Disturb(procs)
        /\ last' = "config"
        /\ UNCHANGED <<lastTranscript, lastTranslation, isProcessing,
                       processingTimer, timers, closed, nAudio, nInv,
                       stopDone, prevBlob>>
        /\ sent' = <<>> /\ heard' = ""

\* ws.on('message'), type 'config'
RecvConfig ==
    \E lp \in LangPairs :
        /\ ~closed
        /\ nControl < MaxControl
        /\ nControl' = nControl + 1
        /\ sourceLanguage' = OrDefault(lp[1], "zh")
        /\ targetLanguage' = OrDefault(lp[2], "en")
        /\ procs' = Disturb(procs)
        /\ last' = "config"
        /\ UNCHANGED <<audioChunks, lastTranscript, lastTranslation, isProcessing,
                       processingTimer, timers, closed, nAudio, nInv,
                       stopDone, prevBlob>>
        /\ sent' = <<>> /\ heard' = ""

\* ws.on('message'), type 'stop'; the audio and language fields of the message are not read
RecvStop ==
    \E frag \in {StopFrag}, lp \in LangPairs :
        /\ ~closed
        /\ nControl < MaxControl
        /\ nControl' = nControl + 1
        /\ processingTimer' = NoTimer
        /\ timers' = IF processingTimer # NoTimer
                        THEN clearTimeout(processingTimer, timers) ELSE timers
        /\ IF Guarded
              THEN \* processAudioStream returned at once; the handler resets and ends
                   /\ audioChunks' = <<>>
                   /\ lastTranscript' = ""
                   /\ lastTranslation' = ""
                   /\ procs' = Disturb(procs)
                   /\ stopDone' = TRUE
                   /\ prevBlob' = <<>>
                   /\ last' = "stop"
                   /\ UNCHANGED <<isProcessing, nInv>>
              ELSE \* the final invocation awaits transcribe; the handler is suspended
                   /\ nInv < MaxInvocations
                   /\ isProcessing' = TRUE
                   /\ procs' = Disturb(procs) \cup {NewProc(TRUE, "stop")}
                   /\ nInv' = nInv + 1
                   /\ last' = "stop"
                   /\ UNCHANGED <<audioChunks, lastTranscript, lastTranslation, stopDone,
                                  prevBlob>>
        /\ sent' = <<>> /\ heard' = ""
        /\ UNCHANGED <<sourceLanguage, targetLanguage, closed, nAudio>>

\* ws.on('message'), type 'clear'
RecvClear ==
    /\ ~closed
    /\ nControl < MaxControl
    /\ nControl' = nControl + 1
    /\ audioChunks' = <<>>
    /\ lastTranscript' = ""
    /\ lastTranslation' = ""
    /\ isProcessing' = FALSE
    /\ processingTimer' = NoTimer
    /\ timers' = IF processingTimer # NoTimer
                    THEN clearTimeout(processingTimer, timers) ELSE timers
    /\ prevBlob' = <<>>
    /\ procs' = {[p EXCEPT !.cleared = TRUE] : p \in Disturb(procs)}
    /\ last' = "clear"
    /\ sent' = <<>> /\ heard' = ""
    /\ UNCHANGED <<sourceLanguage, targetLanguage, closed, nAudio, nInv, stopDone>>

\* ws.on('close'): the timeout is cleared, the field keeps the handle
Close ==
    /\ ~closed
    /\ closed' = TRUE
    /\ timers' = IF processingTimer # NoTimer
                    THEN clearTimeout(processingTimer, timers) ELSE timers
    /\ last' = "close"
    /\ UNCHANGED <<audioChunks, lastTranscript, lastTranslation, isProcessing,
                   sourceLanguage, targetLanguage, processingTimer, procs,
                   nAudio, nControl, nInv, stopDone, prevBlob>>
    /\ sent' = <<>> /\ heard' = ""

\* the setTimeout callback of scheduleProcessing
TimerFire ==
    \E h \in timers :
        /\ IF Len(audioChunks) > 0 /\ ~isProcessing
              THEN IF SizeAbort(FALSE)
                      THEN \* processAudioStream returned below the floor; chunks remain
                           /\ isProcessing' = FALSE
                           /\ processingTimer' = scheduleProcessing(NoTimer, timers \ {h})[1]
                           /\ timers' = scheduleProcessing(NoTimer, timers \ {h})[2]
                           /\ last' = "timer-abort"
                           /\ UNCHANGED <<procs, nInv, prevBlob>>
                      ELSE /\ nInv < MaxInvocations
                           /\ isProcessing' = TRUE
                           /\ processingTimer' = NoTimer
                           /\ timers' = timers \ {h}
                           /\ procs' = procs \cup {NewProc(FALSE, "timer")}
                           /\ nInv' = nInv + 1
                           /\ prevBlob' = audioChunks
                           /\ last' = "timer-invoke"
              ELSE /\ processingTimer' = NoTimer
                   /\ timers' = timers \ {h}
                   /\ last' = "timer-skip"
                   /\ UNCHANGED <<isProcessing, procs, nInv, prevBlob>>
        /\ UNCHANGED <<audioChunks, lastTranscript, lastTranslation, sourceLanguage,
                       targetLanguage, closed, nAudio, nControl, 
                       stopDone>>
        /\ sent' = <<>> /\ heard' = ""

\* the change test without the comparison with lastTranscript
Changed_NoCompare(text) == text # ""

\* if (newText && newText !== sessionData.lastTranscript)
Changed(text) == text # "" /\ text # lastTranscript

\* a flush at the end of every successful invocation
chunksAfter_Drain(p, ok) == IF ok THEN <<>> ELSE audioChunks

\* sessionData.audioChunks after the try block: if (isFinal) audioChunks = []
chunksAfter(p, ok) == IF ok /\ p.isFinal THEN <<>> ELSE audioChunks

Event(type, p, targetText) ==
    [type |-> type, sourceText |-> IF type = "error" THEN "" ELSE p.newText,
     targetText |-> targetText, isFinal |-> p.isFinal /\ type # "error"]

\* the end of processAudioStream for p and the rest of its caller:
\* ok: the try block ran to its end; lt, ltr: the last-emitted fields at that point
Finish(p, ok, lt, ltr, events, op) ==
    LET flushed == ok /\ p.isFinal
        chunks1 == chunksAfter(p, ok)
        sched   == scheduleProcessing(processingTimer, timers)
    IN  /\ isProcessing' = FALSE
        /\ sent' = events
        /\ procs' = procs \ {p}
        /\ last' = op
        /\ IF p.origin = "stop"
              THEN \* the stop handler resumes after its await
                   /\ audioChunks' = <<>>
                   /\ lastTranscript' = ""
                   /\ lastTranslation' = ""
                   /\ stopDone' = TRUE
                   /\ prevBlob' = <<>>
                   /\ UNCHANGED <<processingTimer, timers>>
              ELSE \* the timer callback resumes after its await
                   /\ audioChunks' = chunks1
                   /\ lastTranscript' = IF flushed THEN "" ELSE lt
                   /\ lastTranslation' = IF flushed THEN "" ELSE ltr
                   /\ IF Len(chunks1) > 0
                         THEN /\ processingTimer' = sched[1]
                              /\ timers' = sched[2]
                         ELSE UNCHANGED <<processingTimer, timers>>
                   /\ prevBlob' = IF chunks1 = <<>> THEN <<>> ELSE prevBlob
                   /\ UNCHANGED stopDone
        /\ UNCHANGED <<sourceLanguage, targetLanguage, closed, nAudio, nControl,
                       nInv>>

\* mistral.audio.transcriptions.complete resolves
TranscribeReturn ==
    \E p \in procs, text \in Texts :
        /\ p.pc = "transcribe"
        /\ heard' = text
        /\ IF Changed(text)
              THEN /\ lastTranscript' = text
                   /\ procs' = (procs \ {p}) \cup
                               {[p EXCEPT !.pc = "translate", !.newText = text,
                                          !.src = sourceLanguage, !.tgt = targetLanguage]}
                   /\ last' = "transcribed"
                   /\ UNCHANGED <<audioChunks, lastTranslation, isProcessing,
                                  sourceLanguage, targetLanguage, processingTimer,
                                  timers, closed, nAudio, nControl, nInv,
                                  stopDone, prevBlob>>
                   /\ sent' = <<>>
              ELSE Finish(p, TRUE, lastTranscript, lastTranslation, <<>>, "unchanged")

\* the rejection swallowed without an error event
TranscribeThrow_Silent ==
    \E p \in procs :
        /\ p.pc = "transcribe"
        /\ heard' = ""
        /\ Finish(p, FALSE, lastTranscript, lastTranslation, <<>>, "transcribe-failed")

\* mistral.audio.transcriptions.complete rejects
TranscribeThrow ==
    \E p \in procs :
        /\ p.pc = "transcribe"
        /\ heard' = ""
        /\ Finish(p, FALSE, lastTranscript, lastTranslation,
                  <<Event("error", p, "")>>, "transcribe-failed")

\* mistral.chat.complete resolves
TranslateReturn ==
    \E p \in procs, translatedText \in Translations :
        /\ p.pc = "translate"
        /\ heard' = ""
        /\ Finish(p, TRUE, lastTranscript, translatedText,
                  <<Event("transcription", p, translatedText)>>, "translated")

\* mistral.chat.complete rejects
TranslateThrow ==
    \E p \in procs :
        /\ p.pc = "translate"
        /\ heard' = ""
        /\ Finish(p, FALSE, lastTranscript, lastTranslation,
                  <<Event("error", p, "")>>, "translate-failed")

Next ==
    \/ RecvAudio
    \/ RecvConfig
    \/ RecvStop
    \/ RecvClear
    \/ Close
    \/ TimerFire
    \/ TranscribeReturn
    \/ TranscribeThrow
    \/ TranslateReturn
    \/ TranslateThrow

Spec == Init /\ [][Next]_vars

\* ---- the same session when the client sends fragments of 1000, 1000, 1000 and 1500 bytes ----
ScenarioSizes == <<1000, 1000, 1000, 1500>>

ScenarioAudio ==
    /\ nAudio < Len(ScenarioSizes)
    /\ Audio(ScenarioSizes[nAudio + 1], <<"", "">>)

ScenarioNext ==
    \/ ScenarioAudio
    \/ RecvConfig
    \/ RecvStop
    \/ RecvClear
    \/ Close
    \/ TimerFire
    \/ TranscribeReturn
    \/ TranscribeThrow
    \/ TranslateReturn
    \/ TranslateThrow

SpecScenario == Init /\ [][ScenarioNext]_vars

\* ---- the claims ----

\* the calls of processAudioStream that end in this step
Ending == {p \in procs : \A q \in procs' : q.id # p.id}
\* the calls of processAudioStream that start in this step
Starting == {p \in procs' : \A q \in procs : q.id # p.id}
\* the fragment received last among those of a non-empty sequence
LastId(chunks) == chunks[Len(chunks)].id
IsTranscription(e) == e.type = "transcription"

\* C1: in every reachable state at most one invocation (transcribe/translate
\* round trip) is active for the session.
C1_SingleFlight == Cardinality(procs) <= 1

\* C2: while an invocation is in flight and only audio messages have arrived
\* since it started, no later invocation is active and no debounce timer is armed.
C2_AudioOnlyKeepsSingleFlight ==
    \A p \in procs :
        p.onlyAudio => /\ timers = {}
                       /\ \A q \in procs : q.id <= p.id

\* C3: a stop message received while the buffer is non-empty starts exactly one
\* final invocation over the buffered audio, also when an invocation is in flight.
C3_StopForcesFinal ==
    [][(last' = "stop" /\ Len(audioChunks) > 0)
         => /\ Cardinality(Starting) = 1
            /\ \A p \in Starting : p.isFinal /\ p.blob = audioChunks]_vars

\* C4 as stated: a stop message received with an empty buffer and nothing in
\* flight calls transcribe exactly once, with an empty blob.
C4_StopOnEmptyCallsTranscribe ==
    [][(last' = "stop" /\ procs = {} /\ Len(audioChunks) = 0)
         => /\ Cardinality(Starting) = 1
            /\ \A p \in Starting : p.isFinal /\ p.pc = "transcribe" /\ p.blob = <<>>]_vars

\* C4 as amended: a stop message received with nothing in flight bypasses the
\* 4000-byte floor: with at least one buffered fragment, whatever the byte size
\* (zero included), transcribe is called exactly once with the whole buffer; with
\* no fragment buffered transcribe is not called, nothing is emitted and the
\* buffer and the last-emitted fields are reset.
C4_StopBypassesFloorOnly ==
    [][(last' = "stop" /\ procs = {})
         => IF Len(audioChunks) = 0
               THEN /\ procs' = {}
                    /\ sent' = <<>>
                    /\ audioChunks' = <<>>
                    /\ lastTranscript' = ""
                    /\ lastTranslation' = ""
                    /\ ~isProcessing'
               ELSE /\ Cardinality(procs') = 1
                    /\ \A p \in procs' : /\ p.isFinal
                                         /\ p.pc = "transcribe"
                                         /\ p.blob = audioChunks]_vars

\* C4 witness: a stop message was handled when no audio had ever been received,
\* so the buffer was empty and nothing was in flight.
C4_Witness == last = "stop" /\ nAudio = 0 /\ stopDone /\ procs = {}

\* C5: the blob of a stop-triggered final invocation ends with the fragment
\* carried by the stop message.
C5_StopFragmentInBlob ==
    \A p \in procs :
        p.origin = "stop" => p.blob # <<>> /\ p.blob[Len(p.blob)] = StopFrag

\* C6: from the end of the handling of a stop message until the next audio
\* message, the buffer is empty, lastTranscript and lastTranslation are blank and
\* inFlight is false.
C6_ResetAfterStop ==
    stopDone => /\ audioChunks = <<>>
                /\ lastTranscript = ""
                /\ lastTranslation = ""
                /\ ~isProcessing

\* C7: no transcription or error event is emitted by an invocation over audio
\* that was buffered before a clear message.
C7_NoEventAfterClear ==
    [][sent' # <<>> => \A p \in Ending : ~p.cleared]_vars

\* C8: an invocation has set lastTranscript (it passed the change test and went on
\* to translate) if and only if it emits a transcription event with that non-empty
\* text; a failed invocation has not set it.
C8_TranscriptSetIffEmitted ==
    [][\A p \in Ending :
          (p.pc = "translate") <=>
              /\ Len(sent') = 1
              /\ IsTranscription(sent'[1])
              /\ sent'[1].sourceText = p.newText
              /\ p.newText # ""]_vars

\* C9: after the connection has closed no debounce timer is pending and no
\* invocation is started.
C9_NothingAfterClose ==
    closed => timers = {} /\ last # "timer-invoke"

\* C10: when the handler of a stop message resets the buffer, the buffer holds no
\* fragment received after that stop message.
C10_StopResetsOnlyEarlierAudio ==
    [][\A p \in Ending :
          p.origin = "stop" =>
              \A i \in 1..Len(audioChunks) : audioChunks[i].id <= LastId(p.blob)]_vars

\* ---- the claims on the scheduler and the invocation ----

TimerStep == last' \in {"timer-abort", "timer-invoke", "timer-skip"}
\* the calls of processAudioStream that this step moved on or ended
Stepped == {p \in procs : p \notin procs'}
IsPrefix(a, b) == Len(a) <= Len(b) /\ SubSeq(b, 1, Len(a)) = a

\* C11: a timer-driven invocation never calls transcribe when the buffer holds
\* fewer than 4000 bytes: the buffer is unchanged, nothing is emitted and
\* inFlight is false afterwards.
C11_FloorForNonFinal ==
    [][(TimerStep /\ ByteLength(audioChunks) < 4000)
         => /\ Starting = {}
            /\ procs' = procs
            /\ audioChunks' = audioChunks
            /\ sent' = <<>>
            /\ ~isProcessing']_vars

\* C11 witness: the timer fired on a non-empty buffer below the floor.
C11_Witness ==
    /\ last = "timer-abort"
    /\ Len(audioChunks) > 0
    /\ ByteLength(audioChunks) < 4000
    /\ ~isProcessing

\* C12: at most one debounce timer is scheduled and live at any time.
C12_OneTimer == Cardinality(timers) <= 1

\* C12 witness: a second audio message arrived while the timer was pending.
C12_Witness ==
    last = "audio" /\ Len(audioChunks) = 2 /\ Cardinality(timers) = 1 /\ ~isProcessing

\* C13: inFlight is true for the whole duration of every invocation, and true
\* only while an invocation is there to release it.
C13_InFlightWhileInvoking == isProcessing <=> procs # {}

\* C14: when transcribe throws, exactly one error event and no transcription
\* event is emitted, inFlight is false afterwards and the connection is kept; an
\* audio message received next has a debounce timer pending for it.
C14_TranscribeFailure ==
    [][/\ last' = "transcribe-failed"
            => /\ Len(sent') = 1
               /\ sent'[1].type = "error"
               /\ ~isProcessing'
               /\ closed' = closed
               /\ Cardinality(Ending) = 1
       /\ (last = "transcribe-failed" /\ last' = "audio")
            => /\ timers' # {}
               /\ processingTimer' \in timers']_vars

\* C14 witness: a transcribe call has just failed on an open connection.
C14_Witness ==
    last = "transcribe-failed" /\ Len(sent) = 1 /\ ~closed /\ ~isProcessing

\* C15: a config message changes only the language pair: buffer, last-emitted
\* fields, inFlight and timer are unchanged, no invocation starts or ends and no
\* event is emitted.
C15_ConfigFrame ==
    [][last' = "config"
         => /\ UNCHANGED <<audioChunks, lastTranscript, lastTranslation,
                           isProcessing, processingTimer, timers>>
            /\ Starting = {}
            /\ Ending = {}
            /\ sent' = <<>>]_vars

\* C15 witness: a config message changed the language pair of a session with
\* buffered audio and a pending timer.
C15_Witness ==
    /\ last = "config"
    /\ sourceLanguage = "en"
    /\ Len(audioChunks) > 0
    /\ timers # {}

\* C16: when a timer-driven invocation ends and no audio arrived during the call
\* (the buffer is still the blob it was given), no timer is armed.
C16_NoRearmWithoutNewAudio ==
    [][\A p \in Ending :
          (p.origin = "timer" /\ audioChunks = p.blob) => timers' = {}]_vars

\* C17: after fragments of 1000, 1000 and 1000 bytes and no other message, the
\* timer cycle that is aborted for size leaves the scheduler idle: no timer is
\* armed again until the next audio message; an invocation runs only on the
\* 4500 bytes there are after the fourth fragment of 1500 bytes.
C17_IdleAfterSizeAbort ==
    /\ (/\ last = "timer-abort"
         /\ nAudio = 3
         /\ nControl = 0
         /\ ~closed
         /\ ByteLength(audioChunks) = 3000)
            => timers = {}
    /\ (nControl = 0 /\ ~closed)
            => \A p \in procs : Len(p.blob) = 4 /\ ByteLength(p.blob) = 4500

\* C18: an invocation goes on to translate if and only if the text returned by
\* transcribe is non-empty and differs from lastTranscript at that moment;
\* otherwise it ends without an event; a transcription event is emitted only by
\* an invocation that ends at the return of translate.
C18_TranslateIffChanged ==
    [][/\ \A p \in Stepped :
            p.pc = "transcribe" /\ last' \in {"transcribed", "unchanged"}
               => LET differs == heard' # "" /\ heard' # lastTranscript
                  IN  /\ differs <=> \E q \in procs' : /\ q.id = p.id
                                                       /\ q.pc = "translate"
                                                       /\ q.newText = heard'
                      /\ ~differs => p \in Ending /\ sent' = <<>>
       /\ (sent' # <<>> /\ IsTranscription(sent'[1]))
            => /\ last' = "translated"
               /\ \E p \in Ending : p.pc = "translate"]_vars

\* C18 witness: transcribe returned the text that was emitted last and the
\* invocation ended without an event.
C18_Witness ==
    last = "unchanged" /\ heard # "" /\ heard = lastTranscript /\ sent = <<>>

C20_BufferOnlyGrows ==
    [][/\ ~IsPrefix(audioChunks, audioChunks')
            => \/ last' \in {"stop", "clear"}
               \/ \E p \in Ending : p.isFinal
       /\ \A i \in 1..Len(audioChunks') :
              audioChunks'[i].id = nAudio' - Len(audioChunks') + i
       /\ \A p \in Starting :
              ~p.isFinal => p.blob = audioChunks /\ IsPrefix(prevBlob, p.blob)]_vars

\* C20 witness: a second non-final invocation runs on a longer buffer than the
\* one before it.
C20_Witness ==
    \E p \in procs : /\ ~p.isFinal
                     /\ p.id = 2
                     /\ p.blob = prevBlob
                     /\ Len(p.blob) = 2
                     /\ last = "timer-invoke"

\* ---- the claims on the flag and on the languages of an invocation ----

\* C21: whenever a debounce timer is pending, inFlight is false; hence the timer
\* callback never runs with inFlight already true.
C21_TimerPendingMeansIdle == timers # {} => ~isProcessing

\* C21 witness: the pending timer has fired, its callback cleared the field and
\* started the invocation that set inFlight, and no timer is pending.
C21_Witness ==
    /\ last = "timer-invoke"
    /\ isProcessing
    /\ timers = {}
    /\ processingTimer = NoTimer
    /\ \E p \in procs : p.origin = "timer" /\ p.pc = "transcribe"

\* C22: an invocation that goes on to translate names to the translator the
\* source language it gave to transcribe, and the language pair it names is the
\* pair of the session when the invocation started, whatever config or audio
\* messages arrived during the transcribe await.
C22_LanguagesFixedPerInvocation ==
    \A p \in procs :
        p.pc = "translate" => /\ p.src = p.lang
                              /\ <<p.src, p.tgt>> = p.pair

====
